---- MODULE Spec2Model ----
(***************************************************************************)
(* Model of the trading bot's task supervisor (TradingBot in               *)
(* trading_bot.py), the broker client (PocketOptionClient in               *)
(* pocket_option.py) and the request layer with its cross-thread bridge    *)
(* (server.py).                                                            *)
(*                                                                         *)
(* Two kinds of execution context exist: the single asyncio event loop     *)
(* (bot_loop) that runs the four loop tasks and every coroutine handed to  *)
(* run_coro_in_bot_loop, and the request threads of the web server, which  *)
(* call bot.start / bot.stop / bot.get_status directly.  No lock is taken  *)
(* anywhere: a thread can be preempted between any two statements.  The    *)
(* event loop runs one task at a time, so the steps of two tasks never     *)
(* interleave, but a request thread may run between two statements of a    *)
(* task and the loop thread between two statements of a handler.  Each     *)
(* step of the model is one read or write of a field that both kinds of    *)
(* context use (is_running, the registry, a task's state, the client's     *)
(* connected, balance and api), with the statements up to the next one.    *)
(*                                                                         *)
(* Time is counted in hours for the 1-hour sleeps and the 4-hour join      *)
(* window; waits shorter than an hour (30s, 5s, 1s) may end at any moment. *)
(* Confidence values are counted in hundredths (0.75 is 75).               *)
(***************************************************************************)
EXTENDS Integers, Sequences, FiniteSets

VARIABLES
    is_running,      \* TradingBot.is_running
    loops,           \* TradingBot.loops: loop name -> task id
    loop_order,      \* the keys of TradingBot.loops in the order they were inserted
    tasks,           \* every asyncio task created so far, by id
    min_confidence,  \* TradingBot.min_confidence, in hundredths
    simulation_mode, \* PocketOptionClient.simulation_mode
    demo,            \* PocketOptionClient.demo
    ssid,            \* whether PocketOptionClient.ssid holds a session id
    client_api,      \* PocketOptionClient.api: "none" or "created"
    connected,       \* PocketOptionClient.connected
    balance,         \* PocketOptionClient.balance
    now,             \* wall clock, hours since construction
    lastJoinEpoch,   \* DailyJoinState.lastJoinEpoch for class "daily_free"
    callAt,          \* hour of the latest join call the daily join made to the broker client
    joinedAt,        \* hour of the latest such call that joined a tournament
    lastDaily,       \* what the latest joinDailyFreeTournament() invocation did
    rpc,             \* per request thread: where its handler stands
    iters,           \* per request thread: the iterator of stop()'s loop over the registry
    resp,            \* per request thread: the latest call it made and what the call saw
    works,           \* coroutines submitted through run_coro_in_bot_loop
    accessed,        \* accesses to bot state: <<"request" or "loop", "read" or "write">>
    warned,          \* "Bot is already running." was logged
    trade_history,   \* TradingBot.trade_history
    pending_trades,  \* TradingBot.pending_trades, as the set of its trade ids
    trades_this_hour, \* TradingBot.trades_this_hour
    patterns_detected, \* TradingBot.patterns_detected
    lastTick,        \* what the latest round of the executor loop saw and did
    loop_busy,       \* the event loop ended its latest step with more steps queued
    must_cancel,     \* asyncio.Task._must_cancel of the task the event loop is running
    running          \* the task the event loop is running (0: none)

vars == <<is_running, loops, loop_order, tasks, min_confidence, simulation_mode, demo, ssid,
          client_api, connected, balance, now, lastJoinEpoch, callAt, joinedAt, lastDaily,
          rpc, iters, resp, works, accessed, warned, trade_history, pending_trades,
          trades_this_hour, patterns_detected, lastTick, loop_busy, must_cancel, running>>

botVars    == <<is_running, loops, loop_order, tasks>>
modeVars   == <<simulation_mode, demo, ssid>>
clientVars == <<modeVars, client_api, connected, balance>>
tradeVars  == <<trade_history, pending_trades, trades_this_hour, patterns_detected>>
joinVars   == <<lastJoinEpoch, callAt, joinedAt, lastDaily>>
reqVars    == <<rpc, iters, resp, accessed, warned>>
loopVars   == <<loop_busy, must_cancel, running>>

----------------------------------------------------------------------------
(* Bounds of the model *)

\* start() bodies that may run (each creates four tasks)
MaxStarts == 2
\* start() bodies that may run where the hours are counted
MaxSessions == 1
\* last hour the clock reaches
MaxClock == 4
\* coroutines that may be submitted through the bridge
MaxWorks == 2
\* longest trade history the getters are applied to
MaxHistory == 11

\* the request threads
Threads == {1, 2}

\* the request thread of the specifications without concurrent requests
Callers == {1}

\* seconds a submitted coroutine may take
WorkDurations == {2, 15}

\* inputs of set_min_confidence, in hundredths
ConfidenceInputs == {-100, 30, 50, 70, 95, 200}

----------------------------------------------------------------------------
(* Program constants *)

\* hours between two automatic joins of the class "daily_free"
JoinWindow == 4

\* a budget of twice the length
BudgetDoubled == 10 + 10

\* run_coro_in_bot_loop, line 42: future.result(timeout=10), in seconds
Budget == 10

\* __init__, line 42
InitialConfidence == 75

\* balance reported by the live api
LiveBalance == 250

----------------------------------------------------------------------------
(* Tasks *)

LoopNames == {"main", "tournament", "executor", "learner"}

\* start(), lines 55-64: the order the tasks are created in
LoopOrder == <<"main", "tournament", "executor", "learner">>

\* asyncio.Task.done(): the coroutine returned or was cancelled
Finished == {"done", "conn_failed", "cancelled"}

TaskDone(i) == tasks[i].pc \in Finished

\* where a task stands after a statement that is no await, while the event
\* loop is running it; the statement that comes next is
\*   sim_balance    pocket_option.py line 36 (line 35 has set connected)
\*   main_test      trading_bot.py line 75 (connect() has returned True)
\*   connect_false  trading_bot.py line 69 (connect() has returned False)
\*   main_stopped   trading_bot.py line 71 (line 69 has cleared the flag)
\*   join_call      trading_bot.py line 84 (line 81 has read the flag set)
\*   return         the end of the coroutine (a while test has read the
\*                  flag cleared)
MidStep == {"sim_balance", "main_test", "connect_false", "main_stopped", "join_call",
            "return"}

\* the event loop is between two steps: no task is being run
LoopFree == running = 0

\* wake: hours left of a 1-hour sleep; timer: the event loop holds a timer
\* or awaited I/O of the task (its latest step ended at an await);
\* sess: the start() that created the task
NewTask(name, session) ==
    [name |-> name, pc |-> "new", wake |-> 0, timer |-> FALSE, sess |-> session]

TaskIds == 1..Len(tasks)

\* a step of the task is queued on the event loop: its first (create_task)
\* or the one that delivers CancelledError (cancel)
Queued(i) == tasks[i].pc \in {"new", "cancelling"} /\ running # i

\* cancel() was called on task i and CancelledError is yet to be delivered:
\* the step that delivers it is queued, or the task is being run and has
\* _must_cancel set
CancelRequested(i) == tasks[i].pc = "cancelling" \/ (running = i /\ must_cancel)

\* the event loop is running task i, which stands at one of the given places
\* (when the place is an await: the await has returned or raised)
At(i, places) == running = i /\ tasks[i].pc \in places

\* the event loop takes up task i (asyncio Task.__step): its first step, or
\* the step after the await it was suspended at, whose sleep is over or
\* whose awaited call has answered; from now on cancel() sets _must_cancel
Begins(i) ==
    /\ LoopFree
    /\ tasks[i].pc \notin Finished \cup {"cancelling"}
    /\ tasks[i].wake = 0
    /\ running' = i
    /\ tasks' = [tasks EXCEPT ![i].timer = FALSE]
    /\ UNCHANGED <<loop_busy, must_cancel>>

\* the event loop runs task i on to the given place (asyncio Task.__step).
\* At a place that is no await the task stays on the loop thread.  An await
\* suspends the task and leaves a timer or awaited I/O behind; if cancel()
\* was called while the task ran (_must_cancel), the awaited future is
\* cancelled at once and the step that delivers CancelledError is queued.
\* A task that returns with _must_cancel set ends cancelled.  When the step
\* is over the loop goes on without sleeping if steps are queued by then
SetTask(i, pc, wake) ==
    LET to == IF pc \in MidStep \/ ~must_cancel THEN pc
              ELSE IF pc \in Finished THEN "cancelled"
              ELSE "cancelling"
    IN  /\ tasks' = [tasks EXCEPT ![i].pc = to,
                                  ![i].wake = IF to = pc THEN wake ELSE 0,
                                  ![i].timer = to \notin Finished \cup MidStep]
        /\ must_cancel' = (must_cancel /\ pc \in MidStep)
        /\ running' = IF pc \in MidStep THEN i ELSE 0
        /\ loop_busy' = IF pc \in MidStep THEN loop_busy
                        ELSE \E j \in TaskIds : tasks'[j].pc \in {"new", "cancelling"}

\* no hour: nothing of the kind happened yet
Never == 0 - 1

NoCall == [call |-> "none"]

\* no iteration over the registry under way
NoIter == [live |-> FALSE, order |-> <<>>, map |-> <<>>, pos |-> 0, used |-> 0,
           task |-> 0]

\* the record of an invocation of the daily join: the hour, the hours of the
\* latest join call and of the latest successful join before it, whether the
\* broker had a free tournament to offer, whether a join call was made,
\* whether it joined, and the value returned
NoJoin == [at |-> Never, prevCall |-> Never, prevJoined |-> Never,
           offered |-> FALSE, called |-> FALSE, joined |-> FALSE, ret |-> FALSE]

\* no round of the executor loop so far
NoTick == [ticked |-> FALSE, confidence |-> 0, threshold |-> 0, placed |-> 0,
           counted |-> 0]

\* PocketOptionClient.__init__, line 30, with the test of the session id left out
SimulationModeApiOnly(available, session) == ~available

\* PocketOptionClient.__init__, line 30: live only if the api package was
\* imported (POCKET_API_AVAILABLE) and a session id is given
SimulationMode(available, session) == ~available \/ ~session

\* TradingBot.__init__, lines 17-43, and PocketOptionClient.__init__, lines 17-30;
\* the stored join epoch lies a join window or more before construction
Constructed(available) ==
    /\ is_running = FALSE
    /\ loops = <<>>
    /\ loop_order = <<>>
    /\ tasks = <<>>
    /\ min_confidence = InitialConfidence
    /\ ssid \in BOOLEAN
    /\ simulation_mode = SimulationMode(available, ssid)
    /\ demo \in BOOLEAN
    /\ client_api = "none"
    /\ connected = FALSE
    /\ balance = 0
    /\ now = 0
    /\ lastJoinEpoch = 0 - JoinWindow
    /\ callAt = Never
    /\ joinedAt = Never
    /\ lastDaily = NoJoin
    /\ rpc = [t \in Threads |-> "idle"]
    /\ iters = [t \in Threads |-> NoIter]
    /\ resp = [t \in Threads |-> NoCall]
    /\ works = <<>>
    /\ accessed = {}
    /\ warned = FALSE
    /\ trades_this_hour = 0
    /\ lastTick = NoTick
    /\ loop_busy = FALSE
    /\ must_cancel = FALSE
    /\ running = 0

\* __init__, lines 35, 39 and 40: no pattern detected, no trade pending and
\* no trade completed yet
EmptyLists ==
    /\ trade_history = <<>>
    /\ pending_trades = {}
    /\ patterns_detected = <<>>

\* construction where the api package is installed: the mode follows the
\* session id alone
Init == Constructed(TRUE) /\ EmptyLists

\* construction with the api package installed or not
ClientInit == (\E available \in BOOLEAN : Constructed(available)) /\ EmptyLists

\* the trade histories the getters are applied to: records in completion
\* order, each a win or a loss
Histories ==
    LET Outcomes == UNION {[1..k -> {"win", "loss"}] : k \in 0..MaxHistory}
    IN  {[i \in 1..Len(o) |-> [id |-> i, outcome |-> o[i]]] : o \in Outcomes}

\* a bot constructed without a session id (server.py lines 27-29: demo mode
\* is forced)
DemoInit ==
    /\ Constructed(TRUE)
    /\ ~ssid
    /\ demo
    /\ EmptyLists

\* a bot constructed without a session id (server.py lines 27-29: demo mode
\* is forced) whose trade history is one of the histories the getters are
\* applied to
StatsInit ==
    /\ Constructed(TRUE)
    /\ ~ssid
    /\ demo
    /\ trade_history \in Histories
    /\ pending_trades = {}
    /\ patterns_detected = <<>>

----------------------------------------------------------------------------
(* TradingBot.start and TradingBot.stop, called by bot_control on a request
   thread (server.py lines 81-87).  Neither takes a lock: another request
   thread or the event loop may run between any two of their statements. *)

\* start() calls that have passed the guard of line 47
StartsBegun ==
    Cardinality({i \in TaskIds : tasks[i].name = "main"})
       + Cardinality({u \in Threads : rpc[u] \in {"start_flag", "create_main"}})

\* start(), line 47, with the guard left out
AlreadyRunningMissing == FALSE

\* start(), line 47: the guard that makes a second start() a no-op
AlreadyRunning == is_running

\* start(), lines 47-49: read the flag; when running, warn and return
StartCheck(t, limit) ==
    /\ rpc[t] = "idle"
    /\ accessed' = accessed \cup {<<"request", "read">>}
    /\ resp' = [resp EXCEPT ![t] =
                  [call |-> "start", wasRunning |-> is_running, before |-> Len(tasks),
                   sess |-> StartsBegun + 1]]
    /\ IF AlreadyRunning
       THEN /\ warned' = TRUE
            /\ UNCHANGED rpc
       ELSE /\ StartsBegun < limit
            /\ rpc' = [rpc EXCEPT ![t] = "start_flag"]
            /\ UNCHANGED warned
    /\ UNCHANGED <<botVars, min_confidence, tradeVars, lastTick, loopVars, clientVars, now, joinVars, iters, works>>

\* where start() stands when it is about to create the task of a loop name
CreatePoint == [main       |-> "create_main",
                tournament |-> "create_tournament",
                executor   |-> "create_executor",
                learner    |-> "create_learner"]

\* where start() stands when it is about to store the task it has created
StorePoint == [main       |-> "store_main",
               tournament |-> "store_tournament",
               executor   |-> "store_executor",
               learner    |-> "store_learner"]

\* start(), line 51: set the flag; the log call of line 52 follows
StartFlag(t) ==
    /\ rpc[t] = "start_flag"
    /\ is_running' = TRUE
    /\ rpc' = [rpc EXCEPT ![t] = CreatePoint[LoopOrder[1]]]
    /\ accessed' = accessed \cup {<<"request", "write">>}
    /\ UNCHANGED <<loops, loop_order, tasks, min_confidence, tradeVars, lastTick, loopVars, clientVars, now, joinVars, iters, resp, works, warned>>

\* self.loops[name] = task: the entry is written into the dict self.loops
\* is bound to at that moment; a new key goes to the end of the dict
StoreEntry(name, task) ==
    /\ loops' = [n \in DOMAIN loops \cup {name} |->
                   IF n = name THEN task ELSE loops[n]]
    /\ loop_order' = IF name \in DOMAIN loops THEN loop_order
                     ELSE Append(loop_order, name)

\* start(), one of lines 55, 58, 61 and 64, right side: loop.create_task()
\* creates the task of one loop and queues its first step
StartCreate(t) ==
    /\ \E k \in 1..4 :
          LET n == LoopOrder[k]
          IN  /\ rpc[t] = CreatePoint[n]
              /\ tasks' = Append(tasks, NewTask(n, resp[t].sess))
              /\ rpc' = [rpc EXCEPT ![t] = StorePoint[n]]
    /\ UNCHANGED <<is_running, loops, loop_order, min_confidence, tradeVars, lastTick, loopVars, clientVars, now, joinVars, iters, resp, works, accessed, warned>>

\* the task the start() call of thread t has created for a loop name
Created(t, name) ==
    CHOOSE i \in TaskIds : tasks[i].sess = resp[t].sess /\ tasks[i].name = name

\* start(), one of lines 55, 58, 61 and 64, left side: the task just created
\* is stored in the registry under its name
StartStore(t) ==
    /\ \E k \in 1..4 :
          LET n == LoopOrder[k]
          IN  /\ rpc[t] = StorePoint[n]
              /\ StoreEntry(n, Created(t, n))
              /\ rpc' = [rpc EXCEPT ![t] =
                            IF k = 4 THEN "idle" ELSE CreatePoint[LoopOrder[k + 1]]]
    /\ accessed' = accessed \cup {<<"request", "write">>}
    /\ UNCHANGED <<is_running, tasks, min_confidence, tradeVars, lastTick, loopVars, clientVars, now, joinVars, iters, resp, works, warned>>

\* stop(), lines 108-109: read the flag; when not running, return
StopCheck(t) ==
    /\ rpc[t] = "idle"
    /\ accessed' = accessed \cup {<<"request", "read">>}
    /\ resp' = [resp EXCEPT ![t] =
                  [call |-> "stop", wasRunning |-> is_running, before |-> Len(tasks),
                   raised |-> FALSE]]
    /\ rpc' = [rpc EXCEPT ![t] = IF is_running THEN "stop_flag" ELSE "idle"]
    /\ UNCHANGED <<botVars, min_confidence, tradeVars, lastTick, loopVars, clientVars, now, joinVars, iters, works, warned>>

\* stop(), line 111: clear the flag; the log call of line 112 follows
StopFlag(t) ==
    /\ rpc[t] = "stop_flag"
    /\ is_running' = FALSE
    /\ rpc' = [rpc EXCEPT ![t] = "stop_iter"]
    /\ accessed' = accessed \cup {<<"request", "write">>}
    /\ UNCHANGED <<loops, loop_order, tasks, min_confidence, tradeVars, lastTick, loopVars, clientVars, now, joinVars, iters, resp, works, warned>>

\* stop(), line 115: iter(self.loops.items()) on the dict self.loops is
\* bound to; the iterator notes the size of the dict
FreshIter ==
    [live |-> TRUE, order |-> <<>>, map |-> <<>>, pos |-> 0, used |-> Len(loop_order),
     task |-> 0]

\* the iterator of thread t when it runs a round of the for loop: made on
\* entry to the loop, kept from then on
CurIter(t) == IF rpc[t] = "stop_iter" THEN FreshIter ELSE iters[t]

\* the dict an iterator runs over: the registry itself, or what the registry
\* held when self.loops was bound to another dict (line 120)
IterDict(it) ==
    IF it.live THEN [order |-> loop_order, map |-> loops]
    ELSE [order |-> it.order, map |-> it.map]

\* the for loop of line 115 stands at its head
InStopLoop(t) == rpc[t] \in {"stop_iter", "stop_loop"}

\* next() of a dict iterator raises RuntimeError when the size of the dict
\* is not the one the iterator noted
SizeChanged(it) == Len(IterDict(it).order) # it.used

\* next() of a dict iterator has no entry left to give
Exhausted(it) == ~SizeChanged(it) /\ it.pos >= it.used

\* stop(), line 115: one round of the for statement: the iterator gives the
\* next entry of its dict (the value the key holds by then), which the loop
\* variables name and task are bound to; or it raises RuntimeError because a
\* start() has added a key meanwhile: stop() is left by the exception and
\* line 120 is not run
StopIter(t) ==
    /\ InStopLoop(t)
    /\ LET it == CurIter(t)
           d  == IterDict(it)
       IN  \/ /\ ~SizeChanged(it)
              /\ it.pos < it.used
              /\ iters' = [iters EXCEPT ![t] =
                              [it EXCEPT !.pos = it.pos + 1,
                                         !.task = d.map[d.order[it.pos + 1]]]]
              /\ rpc' = [rpc EXCEPT ![t] = "stop_cancel"]
              /\ UNCHANGED resp
           \/ /\ SizeChanged(it)
              /\ iters' = [iters EXCEPT ![t] = NoIter]
              /\ rpc' = [rpc EXCEPT ![t] = "idle"]
              /\ resp' = [resp EXCEPT ![t].raised = TRUE]
    /\ accessed' = accessed \cup {<<"request", "read">>}
    /\ UNCHANGED <<botVars, min_confidence, tradeVars, lastTick, loopVars, clientVars, now, joinVars, works, warned>>

\* stop(), lines 116-117: task.cancel() unless the task is done; a task
\* that is suspended (or has not begun) gets CancelledError at the await it
\* stands at; a task the event loop is running at that moment is left as
\* it is
CancelTask(i) ==
    IF TaskDone(i) \/ running = i THEN tasks
    ELSE [tasks EXCEPT ![i].pc = "cancelling", ![i].wake = 0]

\* stop(), lines 116-117: task.cancel() on a task the event loop is running
\* sets its _must_cancel
MustCancel(i) == must_cancel \/ (running = i /\ ~TaskDone(i))

\* stop(), lines 116-118: the body of the for statement on the task the
\* loop variable holds; a log call follows the cancel()
StopCancel(t) ==
    /\ rpc[t] = "stop_cancel"
    /\ tasks' = CancelTask(iters[t].task)
    /\ must_cancel' = MustCancel(iters[t].task)
    /\ rpc' = [rpc EXCEPT ![t] = "stop_loop"]
    /\ UNCHANGED <<is_running, loops, loop_order, min_confidence, tradeVars, lastTick, loop_busy, running, clientVars, now, joinVars, iters, resp, works, accessed, warned>>

\* line 120 binds self.loops to a new dict: an iterator of another thread
\* that runs over the registry keeps the dict it was made on, as it is then
Detached(u) ==
    IF rpc[u] \in {"stop_loop", "stop_cancel"} /\ iters[u].live
    THEN [iters[u] EXCEPT !.live = FALSE, !.order = loop_order, !.map = loops]
    ELSE iters[u]

\* stop(), lines 115 and 120: the iterator has no entry left, the loop ends
\* and the registry is replaced by an empty one
StopClear(t) ==
    /\ InStopLoop(t)
    /\ Exhausted(CurIter(t))
    /\ loops' = <<>>
    /\ loop_order' = <<>>
    /\ iters' = [u \in Threads |-> IF u = t THEN NoIter ELSE Detached(u)]
    /\ rpc' = [rpc EXCEPT ![t] = "idle"]
    /\ accessed' = accessed \cup {<<"request", "write">>}
    /\ UNCHANGED <<is_running, tasks, min_confidence, tradeVars, lastTick, loopVars, clientVars, now, joinVars, resp, works, warned>>

----------------------------------------------------------------------------
(* PocketOptionClient *)

\* connect(), line 36: the balance simulation mode sets
SimBalance == IF demo THEN 10000 ELSE 0

\* get_tournaments(), lines 55-69: the two tournaments of simulation mode
SimTournaments ==
    << [id |-> "sim_tournament_1", entry_fee |-> 0,  status |-> "active"],
       [id |-> "sim_tournament_2", entry_fee |-> 10, status |-> "active"] >>

\* a list the live api may return
LiveTournaments ==
    << [id |-> "t1", entry_fee |-> 0,  status |-> "active"],
       [id |-> "t2", entry_fee |-> 10, status |-> "active"],
       [id |-> "t3", entry_fee |-> 0,  status |-> "ended"] >>

\* what the live api can do on one call ("ok", "refused": it returns false,
\* "error": it raises); simulation mode never calls it
ApiJoinOutcomes == IF simulation_mode THEN {"none"} ELSE {"ok", "refused", "error"}

ApiFetchOutcomes == IF simulation_mode THEN {"none"} ELSE {"ok", "error"}

\* get_tournaments(), lines 52-77; fetch is what api.get_tournament_list() does
get_tournaments(fetch) ==
    IF simulation_mode THEN SimTournaments
    ELSE IF fetch = "ok" THEN LiveTournaments ELSE <<>>

\* join_tournament(), lines 79-96, with the live api's answer lost
join_tournament_lost(api) == simulation_mode

\* join_tournament(), lines 79-96; api is what api.join_tournament(id) does
join_tournament(api) == IF simulation_mode THEN TRUE ELSE api = "ok"

\* whether the call made the account a participant of the tournament
Joined(api) == simulation_mode \/ api = "ok"

\* is_connected(), lines 99-100; apiUp is what api.is_connected() answers
is_connected(apiUp) == connected /\ (simulation_mode \/ apiUp)

\* is_simulation(), lines 102-103
is_simulation == simulation_mode

\* get_balance(), lines 106-109; apiBalance is what api.get_balance() answers
get_balance(apiBalance) == IF simulation_mode THEN balance ELSE apiBalance

----------------------------------------------------------------------------
(* The four loops.  A task whose cancellation was requested gets
   CancelledError at the await it stands at (or before its first step); no
   loop catches it (_tournament_loop re-raises it, lines 88-89). *)

Cancelled(i) ==
    /\ LoopFree
    /\ tasks[i].pc = "cancelling"
    /\ SetTask(i, "cancelled", 0)

\* the coroutine of a loop returns (its while test has read the flag
\* cleared): the task is done
Returns(i) ==
    /\ At(i, {"return"})
    /\ SetTask(i, "done", 0)

\* connect(), lines 47-50, without line 49
ConnectFailedStaysConnected(i) ==
    /\ SetTask(i, "connect_false", 0)
    /\ UNCHANGED <<is_running, loops, loop_order, balance, modeVars, client_api,
                   connected, accessed>>

\* connect(), lines 47-50: an exception of the api is caught, the client is
\* marked not connected and False is returned to _main_loop (line 68)
ConnectFailed(i) ==
    /\ connected' = FALSE
    /\ SetTask(i, "connect_false", 0)
    /\ UNCHANGED <<is_running, loops, loop_order, balance, modeVars, client_api, accessed>>

\* _main_loop, lines 69-70: connect() returned false: the flag is cleared;
\* the log call follows
MainLoopStops(i) ==
    /\ At(i, {"connect_false"})
    /\ is_running' = FALSE
    /\ SetTask(i, "main_stopped", 0)
    /\ accessed' = accessed \cup {<<"loop", "write">>}
    /\ UNCHANGED <<loops, loop_order, clientVars>>

\* _main_loop, line 71: the coroutine returns after the failure
MainLoopGivesUp(i) ==
    /\ At(i, {"main_stopped"})
    /\ SetTask(i, "conn_failed", 0)
    /\ UNCHANGED <<is_running, loops, loop_order, clientVars, accessed>>

\* _main_loop, lines 75-76: connect() returned true; test the flag, sleep 5s
MainLoopHead(i) ==
    /\ At(i, {"main_test", "sleep5"})
    /\ SetTask(i, IF is_running THEN "sleep5" ELSE "return", 0)
    /\ UNCHANGED <<is_running, loops, loop_order, clientVars, accessed>>

\* _main_loop, lines 66-76, with PocketOptionClient.connect, lines 32-50:
\* simulation mode sets connected (line 35), then the balance (line 36);
\* live mode creates the api (line 41), awaits the handshake ("connecting"),
\* sets connected (line 43), awaits the balance ("balancing") and stores it
\* (line 44); each of the three calls of the api may raise
MainLoopStep(i) ==
    /\ i \in TaskIds
    /\ tasks[i].name = "main"
    /\ \/ /\ Cancelled(i) \/ Begins(i)
          /\ UNCHANGED <<is_running, loops, loop_order, clientVars, accessed>>
       \/ /\ At(i, {"new"})
          /\ simulation_mode
          /\ connected' = TRUE
          /\ SetTask(i, "sim_balance", 0)
          /\ UNCHANGED <<is_running, loops, loop_order, balance, modeVars, client_api, accessed>>
       \/ /\ At(i, {"sim_balance"})
          /\ balance' = SimBalance
          /\ SetTask(i, "main_test", 0)
          /\ UNCHANGED <<is_running, loops, loop_order, connected, modeVars, client_api, accessed>>
       \/ /\ At(i, {"new"})
          /\ ~simulation_mode
          /\ client_api' = "created"
          /\ SetTask(i, "connecting", 0)
          /\ UNCHANGED <<is_running, loops, loop_order, modeVars, connected, balance, accessed>>
       \/ /\ At(i, {"new"})
          /\ ~simulation_mode
          /\ ConnectFailed(i)
       \/ /\ At(i, {"connecting"})
          /\ connected' = TRUE
          /\ SetTask(i, "balancing", 0)
          /\ UNCHANGED <<is_running, loops, loop_order, balance, modeVars, client_api, accessed>>
       \/ /\ At(i, {"connecting"})
          /\ ConnectFailed(i)
       \/ /\ At(i, {"balancing"})
          /\ balance' = LiveBalance
          /\ SetTask(i, "main_test", 0)
          /\ UNCHANGED <<is_running, loops, loop_order, connected, modeVars, client_api, accessed>>
       \/ /\ At(i, {"balancing"})
          /\ ConnectFailed(i)
       \/ MainLoopStops(i)
       \/ MainLoopGivesUp(i)
       \/ MainLoopHead(i)
       \/ /\ Returns(i)
          /\ UNCHANGED <<is_running, loops, loop_order, clientVars, accessed>>
    /\ UNCHANGED <<min_confidence, tradeVars, lastTick, now, joinVars, rpc, iters, resp, works, warned>>

\* confidence scores the agent may hold for the current asset and
\* timeframe, in hundredths
AgentScores == {60, 90}

\* an agent whose score stays the same
SteadyAgent == {90}

\* _trade_executor_loop, lines 94-98: per round the flag test and a 1s sleep;
\* nothing else is done in a round, whatever score the agent holds; the
\* coroutine returns once the test has read the flag cleared
ExecutorLoopStep(i, scores) ==
    /\ i \in TaskIds
    /\ tasks[i].name = "executor"
    /\ UNCHANGED <<is_running, loops, loop_order, min_confidence, tradeVars, clientVars, now,
                   joinVars, reqVars, works>>
    /\ \/ /\ Cancelled(i) \/ Begins(i)
          /\ UNCHANGED lastTick
       \/ /\ At(i, {"new", "sleep1"})
          /\ ~is_running
          /\ SetTask(i, "return", 0)
          /\ UNCHANGED lastTick
       \/ /\ Returns(i)
          /\ UNCHANGED lastTick
       \/ /\ At(i, {"new", "sleep1"})
          /\ is_running
          /\ SetTask(i, "sleep1", 0)
          /\ \E score \in scores :
                lastTick' = [ticked |-> TRUE, confidence |-> score,
                             threshold |-> min_confidence,
                             placed |-> Cardinality(pending_trades')
                                           - Cardinality(pending_trades),
                             counted |-> trades_this_hour' - trades_this_hour]

\* _knowledge_learner_loop, lines 100-104
LearnerLoopStep(i) ==
    /\ i \in TaskIds
    /\ tasks[i].name = "learner"
    /\ \/ Cancelled(i)
       \/ Begins(i)
       \/ /\ At(i, {"new", "sleep3600"})
          /\ SetTask(i, IF is_running THEN "sleep3600" ELSE "return",
                        IF is_running THEN 1 ELSE 0)
       \/ Returns(i)
    /\ UNCHANGED <<is_running, loops, loop_order, min_confidence, tradeVars, lastTick, clientVars, now, joinVars,
                   reqVars, works>>

----------------------------------------------------------------------------
(* TournamentManager (TournamentScheduler of the specification, sections 3
   and 4.3) *)

\* getAllActiveFreeTournaments: the active tournaments with no entry fee
getAllActiveFreeTournaments(fetch) ==
    LET IsFree(x) == x.status = "active" /\ x.entry_fee = 0
    IN  SelectSeq(get_tournaments(fetch), IsFree)

\* joinTournamentById: the broker client's join, a failure turned to false
joinTournamentById(api) == join_tournament(api)

\* joinDailyFreeTournament: what one invocation at the current hour does
joinDailyFreeTournament(fetch, api) ==
    LET skip   == now - lastJoinEpoch < JoinWindow
        free   == IF skip THEN <<>> ELSE getAllActiveFreeTournaments(fetch)
        called == Len(free) > 0
        ret    == called /\ joinTournamentById(api)
    IN  [called |-> called,
         ret    |-> ret,
         joined |-> called /\ Joined(api),
         epoch  |-> IF ret THEN now ELSE lastJoinEpoch]

\* the state change of one invocation
DoJoinDaily(fetch, api) ==
    LET r == joinDailyFreeTournament(fetch, api)
    IN  /\ lastJoinEpoch' = r.epoch
        /\ callAt' = IF r.called THEN now ELSE callAt
        /\ joinedAt' = IF r.joined THEN now ELSE joinedAt
        /\ lastDaily' = [at |-> now, prevCall |-> callAt, prevJoined |-> joinedAt,
                         offered |-> Len(getAllActiveFreeTournaments(fetch)) > 0,
                         called |-> r.called, joined |-> r.joined, ret |-> r.ret]

\* _tournament_loop without the handler of lines 90-92: the exception of the
\* join ends the task
JoinRaisedEndsLoop(i) ==
    SetTask(i, "done", 0)

\* _tournament_loop, lines 90-92: an exception of the join other than
\* CancelledError is caught and logged, and the task sleeps an hour
JoinRaised(i) ==
    SetTask(i, "sleep3600_err", 1)

\* _tournament_loop, lines 88-89: CancelledError raised by the join is
\* raised again and ends the task as cancelled
JoinCancelled(i) ==
    SetTask(i, "cancelled", 0)

\* the task stands where a round of _tournament_loop begins (line 81): a
\* sleep has returned
AtRoundStart(i) == At(i, {"sleep30", "sleep3600", "sleep3600_err"})

\* join_daily_free_tournament() has the broker client await the live api
\* (pocket_option.py lines 74 and 88): in live mode, when the join window
\* has passed; simulation mode and an invocation within the window make no
\* api call
JoinSuspends == ~simulation_mode /\ now - lastJoinEpoch >= JoinWindow

\* _tournament_loop, lines 78-92: the 30s wait, then per round the flag test
\* (line 81), the invocation of the daily join (line 84) and a 1-hour sleep
\* (in the handler when the join raised).  While the join awaits the live
\* api the task is suspended at line 84 ("joining"); what the invocation
\* does to the join state is done when it returns
TournamentLoopStep(i) ==
    /\ i \in TaskIds
    /\ tasks[i].name = "tournament"
    /\ \/ /\ Cancelled(i) \/ Begins(i)
          /\ UNCHANGED joinVars
       \/ /\ At(i, {"new"})
          /\ SetTask(i, "sleep30", 0)
          /\ UNCHANGED joinVars
       \/ /\ AtRoundStart(i)
          /\ SetTask(i, IF is_running THEN "join_call" ELSE "return", 0)
          /\ UNCHANGED joinVars
       \/ /\ Returns(i)
          /\ UNCHANGED joinVars
       \/ /\ At(i, {"join_call"})
          /\ JoinSuspends
          /\ SetTask(i, "joining", 0)
          /\ UNCHANGED joinVars
       \/ /\ \/ At(i, {"join_call"}) /\ ~JoinSuspends
             \/ At(i, {"joining"})
          /\ \/ /\ \E fetch \in ApiFetchOutcomes, api \in ApiJoinOutcomes :
                      DoJoinDaily(fetch, api)
                /\ SetTask(i, "sleep3600", 1)
             \/ /\ JoinRaised(i)
                /\ UNCHANGED joinVars
             \/ /\ JoinCancelled(i)
                /\ UNCHANGED joinVars
    /\ UNCHANGED <<is_running, loops, loop_order, min_confidence, tradeVars, lastTick, clientVars, now, reqVars, works>>

\* one step of whichever loop task i is
LoopStep(i) ==
    \/ MainLoopStep(i)
    \/ TournamentLoopStep(i)
    \/ ExecutorLoopStep(i, SteadyAgent)
    \/ LearnerLoopStep(i)

\* The thread of run_forever (server.py line 123) sleeps in select() until a
\* timer is due, awaited I/O arrives or call_soon_threadsafe writes to its
\* wake-up pipe.  start() and stop() run on a request thread (server.py lines
\* 82 and 86): their create_task() and cancel() queue the task's step with
\* call_soon(), which does not wake the loop.  The loop is sure to run what
\* is queued when it is inside a step of a task, when it did not go to
\* sleep after its latest step, when it holds a timer or awaited I/O of a
\* task (it runs all that is queued when it wakes for it), or while a
\* coroutine handed over by run_coroutine_threadsafe is pending.
LoopWakes ==
    \/ ~LoopFree
    \/ loop_busy
    \/ \E i \in TaskIds : tasks[i].timer
    \/ \E w \in DOMAIN works : works[w].state = "pending"

\* an hour passes, up to the hour limit: every 1-hour sleep comes an hour closer to its end
Tick(limit) ==
    /\ now < limit
    /\ now' = now + 1
    /\ tasks' = [i \in TaskIds |->
                   IF tasks[i].wake > 0
                   THEN [tasks[i] EXCEPT !.wake = tasks[i].wake - 1]
                   ELSE tasks[i]]
    /\ UNCHANGED <<is_running, loops, loop_order, min_confidence, tradeVars, lastTick, loopVars, clientVars, joinVars, reqVars,
                   works>>

----------------------------------------------------------------------------
(* Calls of the request layer that bot_control and the GET routes make on
   the request thread itself *)

Max(a, b) == IF a >= b THEN a ELSE b

Min(a, b) == IF a <= b THEN a ELSE b

\* set_min_confidence, line 124, without the lower clamp
ClampNoFloor(x) == Min(95, x)

\* set_min_confidence, line 124: max(0.5, min(0.95, confidence))
Clamp(x) == Max(50, Min(95, x))

\* set_min_confidence, lines 123-125
SetMinConfidence(t, x) ==
    /\ rpc[t] = "idle"
    /\ min_confidence' = Clamp(x)
    /\ resp' = [resp EXCEPT ![t] =
                  [call |-> "confidence", input |-> x, stored |-> min_confidence']]
    /\ accessed' = accessed \cup {<<"request", "write">>}
    /\ UNCHANGED <<botVars, clientVars, now, joinVars, rpc, iters, works, warned, tradeVars,
                   lastTick, loopVars>>

\* get_status, server.py lines 59-62 calling trading_bot.py lines 128-131:
\* the dict of the answer is built entry by entry; is_running is read first
GetStatus(t) ==
    /\ rpc[t] = "idle"
    /\ resp' = [resp EXCEPT ![t] = [call |-> "status", is_running |-> is_running]]
    /\ rpc' = [rpc EXCEPT ![t] = "status_connected"]
    /\ accessed' = accessed \cup {<<"request", "read">>}
    /\ UNCHANGED <<botVars, min_confidence, tradeVars, lastTick, loopVars, clientVars, now, joinVars, iters, works,
                   warned>>

\* get_status, trading_bot.py lines 132-134: client.is_connected() is read
GetStatusConnected(t) ==
    /\ rpc[t] = "status_connected"
    /\ \E apiUp \in (IF simulation_mode \/ ~connected THEN {TRUE} ELSE BOOLEAN) :
          resp' = [resp EXCEPT ![t] =
                     [call |-> "status", is_running |-> resp[t].is_running,
                      connected |-> is_connected(apiUp)]]
    /\ rpc' = [rpc EXCEPT ![t] = "status_balance"]
    /\ UNCHANGED <<botVars, min_confidence, tradeVars, lastTick, loopVars, clientVars, now, joinVars, iters, works,
                   accessed, warned>>

\* get_status, trading_bot.py lines 135-145: client.is_simulation() and
\* client.balance are read, then the entries no loop writes, and the dict is
\* returned
GetStatusBalance(t) ==
    /\ rpc[t] = "status_balance"
    /\ resp' = [resp EXCEPT ![t] =
                  [call |-> "status", is_running |-> resp[t].is_running,
                   connected |-> resp[t].connected,
                   simulation_mode |-> is_simulation, balance |-> balance,
                   patterns_detected |-> Len(patterns_detected),
                   trades_this_hour |-> trades_this_hour,
                   pending_trades |-> Cardinality(pending_trades),
                   total_trades |-> Len(trade_history)]]
    /\ rpc' = [rpc EXCEPT ![t] = "idle"]
    /\ UNCHANGED <<botVars, min_confidence, tradeVars, lastTick, loopVars, clientVars, now, joinVars, iters, works,
                   accessed, warned>>

\* the first n elements of a list: list[:n]
FirstN(list, n) == SubSeq(list, 1, Min(n, Len(list)))

\* the last n elements of a list: list[-n:]
LastN(list, n) == SubSeq(list, Max(1, Len(list) - n + 1), Len(list))

\* get_market_analysis, line 150: self.patterns_detected[:10]
get_market_analysis == [patterns |-> FirstN(patterns_detected, 10)]

\* get_trade_stats, lines 162-163: the records with the given outcome
CountOutcome(history, outcome) ==
    Cardinality({i \in 1..Len(history) : history[i].outcome = outcome})

\* get_trade_stats, line 164, taking the slice from the front
RecentTradesFromFront(history) == FirstN(history, 10)

\* get_trade_stats, line 164: self.trade_history[-10:]
RecentTrades(history) == LastN(history, 10)

\* get_trade_stats, lines 158-166; win_rate is the quotient wins / total,
\* kept as numerator and denominator, and 0 for an empty history
get_trade_stats ==
    [total_trades  |-> Len(trade_history),
     total_wins    |-> CountOutcome(trade_history, "win"),
     total_losses  |-> CountOutcome(trade_history, "loss"),
     recent_trades |-> RecentTrades(trade_history),
     win_rate      |-> IF Len(trade_history) > 0
                       THEN [num |-> CountOutcome(trade_history, "win"),
                             den |-> Len(trade_history)]
                       ELSE [num |-> 0, den |-> 1]]

\* get_market_analysis route, server.py lines 108-111
GetMarketAnalysis(t) ==
    /\ rpc[t] = "idle"
    /\ resp' = [resp EXCEPT ![t] =
                  [call |-> "market_analysis", analysis |-> get_market_analysis]]
    /\ accessed' = accessed \cup {<<"request", "read">>}
    /\ UNCHANGED <<botVars, min_confidence, tradeVars, lastTick, loopVars, clientVars, now,
                   joinVars, rpc, iters, works, warned>>

\* get_trade_stats route, server.py lines 114-117
GetTradeStats(t) ==
    /\ rpc[t] = "idle"
    /\ resp' = [resp EXCEPT ![t] = [call |-> "trade_stats", stats |-> get_trade_stats]]
    /\ accessed' = accessed \cup {<<"request", "read">>}
    /\ UNCHANGED <<botVars, min_confidence, tradeVars, lastTick, loopVars, clientVars, now,
                   joinVars, rpc, iters, works, warned>>

----------------------------------------------------------------------------
(* run_coro_in_bot_loop (CrossThreadBridge.submit), server.py lines 38-48.
   A work is the coroutine handed over with the future that
   run_coroutine_threadsafe returns for it:
     dur     seconds the coroutine takes
     state   "pending", "finished" (it returned), "raised" (it raised an
             exception), "raised_timeout" (it raised asyncio.TimeoutError),
             "cancelled"
     caller  "waiting" in future.result, "returned" (the future resolved) or
             "timed_out" (the budget elapsed first)
     got     what run_coro_in_bot_loop returned, with the route's HTTP status *)

NoReply == [tuple |-> FALSE, payload |-> [none |-> TRUE], status |-> 0]

\* lines 43-45
TimeoutReply ==
    [tuple |-> TRUE, payload |-> [error |-> "Async operation timed out"], status |-> 504]

\* lines 46-48
ErrorReply(w) ==
    [tuple |-> TRUE, payload |-> [error |-> w.result.raised], status |-> 500]

\* lines 39-48: the value returned once the future is resolved
FutureReply(w) ==
    CASE w.state = "finished"       -> [tuple |-> FALSE, payload |-> w.result, status |-> 0]
      [] w.state = "raised_timeout" -> TimeoutReply
      [] OTHER                      -> ErrorReply(w)

\* get_free_tournaments, lines 71-73, and bot_control, lines 96-102: the
\* HTTP status the route answers with
RouteStatus(kind, reply) ==
    IF reply.tuple THEN reply.status
    ELSE IF kind = "join_tournament_by_id" /\ ~reply.payload.joined THEN 400
    ELSE 200

\* the coroutines the routes submit: lines 68 and 93
WorkKinds == {"get_all_active_free_tournaments", "join_tournament_by_id"}

\* lines 39-42 on behalf of get_free_tournaments (line 69) or bot_control
\* (line 94): hand the coroutine to the bot loop and wait for the future
Submit(t, kind, dur) ==
    /\ rpc[t] = "idle"
    /\ Len(works) < MaxWorks
    /\ works' = Append(works, [owner |-> t, kind |-> kind, dur |-> dur,
                               state |-> "pending", caller |-> "waiting",
                               result |-> [none |-> TRUE], got |-> NoReply,
                               http |-> 0])
    /\ rpc' = [rpc EXCEPT ![t] = "bridge_wait"]
    /\ resp' = [resp EXCEPT ![t] = [call |-> "bridge", work |-> Len(works) + 1]]
    /\ UNCHANGED <<botVars, min_confidence, tradeVars, lastTick, loopVars, clientVars, now, joinVars, iters, accessed, warned>>

\* what the coroutine returns
WorkResult(kind, fetch, api) ==
    IF kind = "join_tournament_by_id"
    THEN [joined |-> joinTournamentById(api)]
    ELSE [tournaments |-> getAllActiveFreeTournaments(fetch)]

\* the bot loop runs the coroutine to its end: it returns or raises.  While
\* the caller waits this happens only if the coroutine takes no longer than
\* the budget
RunWork(w) ==
    /\ w \in DOMAIN works
    /\ works[w].state = "pending"
    /\ works[w].caller = "waiting" => works[w].dur <= Budget
    /\ \/ \E fetch \in ApiFetchOutcomes, api \in ApiJoinOutcomes :
            works' = [works EXCEPT ![w].state = "finished",
                                   ![w].result = WorkResult(works[w].kind, fetch, api)]
       \/ works' = [works EXCEPT ![w].state = "raised",
                                 ![w].result = [raised |-> "Exception"]]
       \/ works' = [works EXCEPT ![w].state = "raised_timeout",
                                 ![w].result = [raised |-> "TimeoutError"]]
    /\ UNCHANGED <<botVars, min_confidence, tradeVars, lastTick, loopVars, clientVars, now, joinVars, reqVars>>

\* the work request thread t waits for
WaitingWork(t) ==
    CHOOSE w \in DOMAIN works : works[w].owner = t /\ works[w].caller = "waiting"

\* line 42 returns or lines 46-48 run: the future was resolved within the budget
BridgeReturn(t) ==
    /\ rpc[t] = "bridge_wait"
    /\ LET w == WaitingWork(t)
           reply == FutureReply(works[w])
       IN  /\ works[w].state # "pending"
           /\ works' = [works EXCEPT ![w].caller = "returned",
                                     ![w].got = reply,
                                     ![w].http = RouteStatus(works[w].kind, reply)]
    /\ rpc' = [rpc EXCEPT ![t] = "idle"]
    /\ UNCHANGED <<botVars, min_confidence, tradeVars, lastTick, loopVars, clientVars, now, joinVars, iters, resp, accessed,
                   warned>>

\* lines 43-45 with the future cancelled as well
TimedOutCancelling(work) ==
    [work EXCEPT !.caller = "timed_out", !.got = TimeoutReply,
                 !.http = RouteStatus(work.kind, TimeoutReply), !.state = "cancelled"]

\* lines 43-45: the caller gets the timeout reply; the future is left alone
TimedOut(work) ==
    [work EXCEPT !.caller = "timed_out", !.got = TimeoutReply,
                 !.http = RouteStatus(work.kind, TimeoutReply)]

\* lines 42-45: the budget elapsed with the future unresolved
BridgeTimeout(t) ==
    /\ rpc[t] = "bridge_wait"
    /\ LET w == WaitingWork(t)
       IN  /\ works[w].state = "pending"
           /\ works[w].dur >= Budget
           /\ works' = [works EXCEPT ![w] = TimedOut(works[w])]
    /\ rpc' = [rpc EXCEPT ![t] = "idle"]
    /\ UNCHANGED <<botVars, min_confidence, tradeVars, lastTick, loopVars, clientVars, now, joinVars, iters, resp, accessed,
                   warned>>

----------------------------------------------------------------------------
(* Specifications *)

\* the supervisor with its four loops under one request thread
Next ==
    \/ \E t \in Callers : StartCheck(t, MaxSessions)
    \/ \E t \in Callers : StartFlag(t)
    \/ \E t \in Callers : StartCreate(t)
    \/ \E t \in Callers : StartStore(t)
    \/ \E t \in Callers : StopCheck(t)
    \/ \E t \in Callers : StopFlag(t)
    \/ \E t \in Callers : StopIter(t)
    \/ \E t \in Callers : StopCancel(t)
    \/ \E t \in Callers : StopClear(t)
    \/ \E i \in TaskIds : MainLoopStep(i)
    \/ \E i \in TaskIds : TournamentLoopStep(i)
    \/ \E i \in TaskIds : ExecutorLoopStep(i, SteadyAgent)
    \/ \E i \in TaskIds : LearnerLoopStep(i)

Spec == Init /\ [][Next]_vars

\* start(), stop() and get_status() with the connection loop, the one loop
\* that writes the flag
ControlNext ==
    \/ \E t \in Callers : StartCheck(t, MaxStarts)
    \/ \E t \in Callers : StartFlag(t)
    \/ \E t \in Callers : StartCreate(t)
    \/ \E t \in Callers : StartStore(t)
    \/ \E t \in Callers : StopCheck(t)
    \/ \E t \in Callers : StopFlag(t)
    \/ \E t \in Callers : StopIter(t)
    \/ \E t \in Callers : StopCancel(t)
    \/ \E t \in Callers : StopClear(t)
    \/ \E t \in Callers : GetStatus(t)
    \/ \E t \in Callers : GetStatusConnected(t)
    \/ \E t \in Callers : GetStatusBalance(t)
    \/ \E i \in TaskIds : MainLoopStep(i)

ControlSpec == Init /\ [][ControlNext]_vars

\* start() and stop() called by two request threads at a time (Flask serves
\* each request on a thread of its own), up to the moment the event loop
\* wakes up for the tasks
RaceNext ==
    \/ \E t \in Threads : StartCheck(t, MaxStarts)
    \/ \E t \in Threads : StartFlag(t)
    \/ \E t \in Threads : StartCreate(t)
    \/ \E t \in Threads : StartStore(t)
    \/ \E t \in Threads : StopCheck(t)
    \/ \E t \in Threads : StopFlag(t)
    \/ \E t \in Threads : StopIter(t)
    \/ \E t \in Threads : StopCancel(t)
    \/ \E t \in Threads : StopClear(t)

RaceSpec == DemoInit /\ [][RaceNext]_vars

\* start() and stop() called again and again, with the connection loop and
\* the executor loops of every start()
RestartNext ==
    \/ \E t \in Callers : StartCheck(t, MaxStarts)
    \/ \E t \in Callers : StartFlag(t)
    \/ \E t \in Callers : StartCreate(t)
    \/ \E t \in Callers : StartStore(t)
    \/ \E t \in Callers : StopCheck(t)
    \/ \E t \in Callers : StopFlag(t)
    \/ \E t \in Callers : StopIter(t)
    \/ \E t \in Callers : StopCancel(t)
    \/ \E t \in Callers : StopClear(t)
    \/ \E i \in TaskIds : MainLoopStep(i)
    \/ \E i \in TaskIds : ExecutorLoopStep(i, SteadyAgent)

RestartSpec == Init /\ [][RestartNext]_vars

\* the connection and tournament loops over the hours
TournamentNext ==
    \/ \E t \in Callers : StartCheck(t, MaxSessions)
    \/ \E t \in Callers : StartFlag(t)
    \/ \E t \in Callers : StartCreate(t)
    \/ \E t \in Callers : StartStore(t)
    \/ \E t \in Callers : StopCheck(t)
    \/ \E t \in Callers : StopFlag(t)
    \/ \E t \in Callers : StopIter(t)
    \/ \E t \in Callers : StopCancel(t)
    \/ \E t \in Callers : StopClear(t)
    \/ \E i \in TaskIds : MainLoopStep(i)
    \/ \E i \in TaskIds : TournamentLoopStep(i)
    \/ Tick(MaxClock)

TournamentSpec == Init /\ [][TournamentNext]_vars

\* the client under every construction, connected by the connection loop
ClientSpec == ClientInit /\ [][ControlNext]_vars

\* the executor loop beside the calls that start and stop it and set the threshold
ExecutorNext ==
    \/ \E t \in Callers : StartCheck(t, MaxSessions)
    \/ \E t \in Callers : StartFlag(t)
    \/ \E t \in Callers : StartCreate(t)
    \/ \E t \in Callers : StartStore(t)
    \/ \E t \in Callers : StopCheck(t)
    \/ \E t \in Callers : StopFlag(t)
    \/ \E t \in Callers : StopIter(t)
    \/ \E t \in Callers : StopCancel(t)
    \/ \E t \in Callers : StopClear(t)
    \/ \E t \in Callers, x \in ConfidenceInputs : SetMinConfidence(t, x)
    \/ \E i \in TaskIds : ExecutorLoopStep(i, AgentScores)

ExecutorSpec == Init /\ [][ExecutorNext]_vars

\* the getters of the dashboard applied to a bot with a trade history
StatsNext ==
    \/ \E t \in Callers : GetMarketAnalysis(t)
    \/ \E t \in Callers : GetTradeStats(t)

StatsSpec == StatsInit /\ [][StatsNext]_vars

\* start() and stop() with the four loops, the event loop running whatever
\* it is sure to wake up for
StopNext ==
    \/ \E t \in Callers : StartCheck(t, MaxSessions)
    \/ \E t \in Callers : StartFlag(t)
    \/ \E t \in Callers : StartCreate(t)
    \/ \E t \in Callers : StartStore(t)
    \/ \E t \in Callers : StopCheck(t)
    \/ \E t \in Callers : StopFlag(t)
    \/ \E t \in Callers : StopIter(t)
    \/ \E t \in Callers : StopCancel(t)
    \/ \E t \in Callers : StopClear(t)
    \/ \E i \in TaskIds : LoopStep(i)

\* a request thread that has entered start() or stop() runs on to its return;
\* the event loop runs a queued step of a task when it is sure to wake
StopFairness ==
    /\ \A t \in Callers : WF_vars(StartFlag(t) \/ StartCreate(t) \/ StartStore(t))
    /\ \A t \in Callers : WF_vars(StopFlag(t) \/ StopIter(t) \/ StopCancel(t) \/ StopClear(t))
    /\ \A i \in 1..(4 * MaxSessions) : WF_vars(LoopWakes /\ LoopStep(i))

StopSpec == Init /\ [][StopNext]_vars /\ StopFairness

\* the calls that read and write the configuration
ConfigNext ==
    \/ \E t \in Threads, x \in ConfidenceInputs : SetMinConfidence(t, x)
    \/ \E t \in Threads : GetStatus(t)
    \/ \E t \in Threads : GetStatusConnected(t)
    \/ \E t \in Threads : GetStatusBalance(t)

ConfigSpec == Init /\ [][ConfigNext]_vars

\* the bridge: the bot loop runs (server.py line 123) and so every submitted
\* coroutine is run; future.result(timeout=10) returns or times out
BridgeNext ==
    \/ \E t \in Threads, kind \in WorkKinds, dur \in WorkDurations : Submit(t, kind, dur)
    \/ \E w \in 1..MaxWorks : RunWork(w)
    \/ \E t \in Threads : BridgeReturn(t)
    \/ \E t \in Threads : BridgeTimeout(t)

BridgeFairness ==
    /\ \A w \in 1..MaxWorks : WF_vars(RunWork(w))
    /\ \A t \in Threads : WF_vars(BridgeReturn(t)) /\ WF_vars(BridgeTimeout(t))

BridgeSpec == Init /\ [][BridgeNext]_vars /\ BridgeFairness

----------------------------------------------------------------------------
(* Claims *)

RegistryFull ==
    /\ DOMAIN loops = LoopNames
    /\ Cardinality({loops[n] : n \in LoopNames}) = 4

\* C1: a start() call that finds the supervisor running changes nothing: no
\* task is created by it and the registry keeps one handle per loop name,
\* so two start() calls in a row leave four tasks, not eight
StartIdempotent ==
    \A t \in Callers :
       (resp[t].call = "start" /\ resp[t].wasRunning /\ rpc[t] = "idle") =>
          /\ Len(tasks) = resp[t].before
          /\ RegistryFull
          /\ \A n \in LoopNames : loops[n] <= resp[t].before

\* C1 witness: the second of two start() calls returned after the warning;
\* four tasks exist and the supervisor runs
StartedTwice ==
    \E t \in Callers :
       /\ resp[t].call = "start" /\ resp[t].wasRunning /\ rpc[t] = "idle"
       /\ warned /\ is_running /\ Len(tasks) = 4 /\ RegistryFull

\* C2: once a stop() made after a start() has returned, the registry is
\* empty and the supervisor is not running
StopEmptiesRegistry ==
    \A t \in Callers :
       (resp[t].call = "stop" /\ rpc[t] = "idle" /\ Len(tasks) > 0) =>
          DOMAIN loops = {} /\ ~is_running

\* C3: while running the registry has exactly one entry per loop name, and
\* while stopped it is empty (whenever no start() or stop() call is under way)
RegistryMatchesState ==
    (\A t \in Threads : rpc[t] = "idle") =>
       /\ is_running => RegistryFull
       /\ ~is_running => DOMAIN loops = {}

\* C4: when the connection loop's connect() has failed, the sibling loops of
\* that start() are cancelled (or over), none is left running or sleeping
\* (whenever no start() or stop() call is under way)
SiblingsCancelledOnFailure ==
    (\A t \in Threads : rpc[t] = "idle") =>
       \A i \in TaskIds :
          tasks[i].pc = "conn_failed" =>
             \A j \in TaskIds :
                tasks[j].sess = tasks[i].sess =>
                   TaskDone(j) \/ CancelRequested(j)

\* C8: no request thread reads or writes bot state itself: every access is
\* made by the bot loop
OnlyLoopAccesses == \A a \in accessed : a[1] = "loop"

\* what the bridge hands its caller for each work whose caller has left
BridgeAnswer(w) ==
    works[w].caller # "waiting" =>
       /\ works[w].dur > 10 =>
             /\ works[w].caller = "timed_out"
             /\ works[w].got.tuple
             /\ works[w].got.payload.error = "Async operation timed out"
             /\ works[w].got.status = 504
             /\ works[w].http = 504
       /\ (works[w].dur < 10 /\ works[w].state = "finished") =>
             /\ works[w].caller = "returned"
             /\ ~works[w].got.tuple
             /\ works[w].got.payload = works[w].result
             /\ works[w].kind = "get_all_active_free_tournaments" =>
                   works[w].http = 200

\* C5: every request made through the bridge gets an answer: work needing
\* more than 10 seconds is answered with the timeout error and status 504,
\* work that completes in less than 10 seconds is answered with its result
BridgeAlwaysAnswers ==
    /\ [](\A w \in DOMAIN works : BridgeAnswer(w))
    /\ \A t \in Threads : (rpc[t] = "bridge_wait") ~> (rpc[t] = "idle")

\* C5 witness: one caller was answered 504 for work of 15 seconds and one
\* was answered with the result of work of 2 seconds
SlowAndFastAnswered ==
    \E v, w \in DOMAIN works :
       /\ works[v].dur = 15 /\ works[v].caller = "timed_out"
       /\ works[v].http = 504
       /\ works[w].dur = 2 /\ works[w].caller = "returned"
       /\ works[w].state = "finished" /\ works[w].http = 200

\* C6: work whose caller timed out is not cancelled: it stays scheduled on
\* the bot loop until it completes, and its effects are applied
TimedOutWorkStillRuns ==
    \A w \in DOMAIN works :
       works[w].caller = "timed_out" =>
          /\ works[w].state # "cancelled"
          /\ works[w].state = "pending" => ENABLED RunWork(w)

\* C6 witness: a join whose caller was answered 504 completed afterwards
\* and joined the tournament
JoinedAfterTimeout ==
    \E w \in DOMAIN works :
       /\ works[w].caller = "timed_out"
       /\ works[w].kind = "join_tournament_by_id"
       /\ works[w].state = "finished"
       /\ works[w].result.joined

\* C7: work that fails within the budget is answered with the exception's
\* message and status 500
FailureAnswered500 ==
    \A w \in DOMAIN works :
       (works[w].caller = "returned"
           /\ works[w].state \in {"raised", "raised_timeout"}) =>
          /\ works[w].got.tuple
          /\ works[w].got.status = 500
          /\ works[w].http = 500

\* C9 as stated: at most one join call to the broker in any window of 4
\* hours; an invocation inside the window makes no call and returns false,
\* an invocation after the window makes a call
OneJoinCallPerWindow ==
    /\ (lastDaily.called /\ lastDaily.prevCall # Never) =>
          lastDaily.at - lastDaily.prevCall >= 4
    /\ (lastDaily.prevCall # Never /\ lastDaily.at - lastDaily.prevCall < 4) =>
          ~lastDaily.called /\ ~lastDaily.ret
    /\ (lastDaily.prevCall # Never /\ lastDaily.at - lastDaily.prevCall >= 4) =>
          lastDaily.called

\* C9: successful joins are at least 4 hours apart; an invocation less than
\* 4 hours after the latest successful join makes no join call and returns
\* false; an invocation 4 hours or more after it, or with no successful join
\* so far, makes a join call whenever the broker offers a free tournament
OneJoinPerWindow ==
    /\ (lastDaily.joined /\ lastDaily.prevJoined # Never) =>
          lastDaily.at - lastDaily.prevJoined >= 4
    /\ (lastDaily.prevJoined # Never
           /\ lastDaily.at - lastDaily.prevJoined < 4) =>
          ~lastDaily.called /\ ~lastDaily.ret
    /\ (lastDaily.at # Never /\ lastDaily.offered
           /\ (lastDaily.prevJoined = Never
                  \/ lastDaily.at - lastDaily.prevJoined >= 4)) =>
          lastDaily.called

\* C9 witness: a second join succeeded, 4 hours after the first
JoinedAgainAfterWindow ==
    /\ lastDaily.joined /\ lastDaily.ret
    /\ lastDaily.prevJoined # Never
    /\ lastDaily.at - lastDaily.prevJoined >= 4

\* C10: the stored threshold is always within [0.50, 0.95]: a setter input
\* below 0.50 stores 0.50, one above 0.95 stores 0.95, any other is stored
\* as given
ConfidenceClamped ==
    /\ min_confidence \in 50..95
    /\ \A t \in Threads :
          resp[t].call = "confidence" =>
             resp[t].stored = IF resp[t].input < 50 THEN 50
                              ELSE IF resp[t].input > 95 THEN 95
                              ELSE resp[t].input

\* C10 witness: one setter was given -1.00 and stored 0.50, another was
\* given 2.00 and the threshold is 0.95
ClampedBothWays ==
    /\ resp[1].call = "confidence" /\ resp[1].input = -100
    /\ resp[1].stored = 50
    /\ resp[2].call = "confidence" /\ resp[2].input = 200
    /\ min_confidence = 95

\* C11: with no session id the client is in simulation mode, and in
\* simulation mode every connect() returns true (the connection loop goes
\* on to its keepalive wait), is_connected() is true after it, get_balance()
\* gives 10000 in demo mode and 0 otherwise, and the live api is never created
SimulationConnects ==
    /\ ~ssid => is_simulation
    /\ is_simulation =>
          /\ client_api = "none"
          /\ \A i \in TaskIds :
                tasks[i].name = "main" =>
                   /\ tasks[i].pc \notin {"connecting", "balancing", "connect_false",
                                           "main_stopped", "conn_failed"}
                   /\ tasks[i].pc \in {"main_test", "sleep5", "return", "done"} =>
                         /\ \A up \in BOOLEAN : is_connected(up)
                         /\ \A b \in {0, LiveBalance} :
                               get_balance(b) = IF demo THEN 10000 ELSE 0

\* C11 witness: without a session id, in demo mode, the connect() of a
\* second start() has returned true as well and the balance is 10000
SimulationConnectedTwice ==
    /\ ~ssid /\ demo
    /\ \E i \in TaskIds :
          /\ i > 4 /\ tasks[i].name = "main" /\ tasks[i].pc = "sleep5"
    /\ is_connected(FALSE) /\ get_balance(0) = 10000

\* C12: in live mode every way out of connect() is a success (the handshake
\* marks the client connected, the balance query leaves the mark alone), a
\* cancellation, or a failure after which the client is not connected and
\* the connection loop, given False, stops the supervisor and returns; the
\* failure may be of the creation of the api, of the handshake or of the
\* balance query
ConnectFailureReturnsFalse ==
    [][\A i \in TaskIds :
          (tasks[i].name = "main" /\ ~simulation_mode /\ tasks'[i].pc # tasks[i].pc) =>
             /\ tasks[i].pc \in {"new", "connecting", "balancing"} =>
                   \/ tasks[i].pc = "new" /\ tasks'[i].pc = "connecting"
                   \/ /\ tasks[i].pc = "connecting" /\ tasks'[i].pc = "balancing"
                      /\ connected'
                   \/ /\ tasks[i].pc = "balancing" /\ tasks'[i].pc = "main_test"
                      /\ connected' = connected
                   \/ tasks'[i].pc = "cancelling"
                   \/ /\ tasks'[i].pc = "connect_false"
                      /\ ~connected' /\ ~is_connected(TRUE)'
             /\ tasks[i].pc = "connect_false" =>
                   /\ tasks'[i].pc = "main_stopped"
                   /\ ~connected' /\ ~is_connected(TRUE)'
                   /\ ~is_running'
             /\ tasks[i].pc = "main_stopped" =>
                   /\ tasks'[i].pc \in {"conn_failed", "cancelled"}
                   /\ ~connected' /\ ~is_connected(TRUE)'
             /\ tasks'[i].pc = "conn_failed" => tasks[i].pc = "main_stopped"]_vars

\* C12 witness: a live connect() failed: the api object was created, the
\* client is not connected and the supervisor is stopped
LiveConnectFailed ==
    /\ ~simulation_mode /\ client_api = "created"
    /\ \E i \in TaskIds : tasks[i].name = "main" /\ tasks[i].pc = "conn_failed"
    /\ ~connected /\ ~is_running

\* C13: a round of the executor loop places a trade exactly when the agent's
\* confidence is at least min_confidence: then one trade is added to the
\* pending set and trades_this_hour grows by one; otherwise neither changes
TradePlacedByConfidence ==
    lastTick.ticked =>
       IF lastTick.confidence >= lastTick.threshold
       THEN lastTick.placed = 1 /\ lastTick.counted = 1
       ELSE lastTick.placed = 0 /\ lastTick.counted = 0

RECURSIVE Wins(_)
Wins(history) ==
    IF history = <<>> THEN 0
    ELSE (IF Head(history).outcome = "win" THEN 1 ELSE 0) + Wins(Tail(history))

\* C15: get_trade_stats() gives the length of the history as total, the
\* number of wins and of losses (adding up to the total), wins / total as
\* win rate (0 for the empty history) and the last 10 records as recent trades
TradeStatsCorrect ==
    \A t \in Callers :
       resp[t].call = "trade_stats" =>
          LET st == resp[t].stats
              n  == Len(trade_history)
          IN  /\ st.total_trades = n
              /\ st.total_wins = Wins(trade_history)
              /\ st.total_wins + st.total_losses = st.total_trades
              /\ IF n = 0 THEN st.win_rate.num = 0
                 ELSE st.win_rate.num * n = st.total_wins * st.win_rate.den
              /\ st.win_rate.den > 0
              /\ Len(st.recent_trades) = Min(10, n)
              /\ \A k \in 1..Len(st.recent_trades) :
                    st.recent_trades[k] = trade_history[n - Len(st.recent_trades) + k]

\* C15 witness: the statistics of the history win, win, loss, win were
\* asked for: 4 trades, 3 wins, 1 loss, win rate 0.75
StatsOfFourTrades ==
    /\ Len(trade_history) = 4
    /\ [i \in 1..4 |-> trade_history[i].outcome] = <<"win", "win", "loss", "win">>
    /\ \E t \in Callers :
          /\ resp[t].call = "trade_stats"
          /\ resp[t].stats.total_trades = 4
          /\ resp[t].stats.total_wins = 3
          /\ resp[t].stats.total_losses = 1
          /\ resp[t].stats.win_rate.num * 100 = 75 * resp[t].stats.win_rate.den

\* C16: after a stop() made while running, each loop task whose cancellation
\* was requested terminates by that cancellation, whatever wait it stands at
StopTerminatesLoops ==
    \A i \in 1..(4 * MaxSessions) :
       (i \in TaskIds /\ CancelRequested(i))
          ~> (i \in TaskIds /\ tasks[i].pc = "cancelled")

\* the tasks other than task i
Siblings(i) == TaskIds \ {i}

\* C17: an exception of the daily join other than a cancellation is caught:
\* the tournament task goes to its 1-hour wait and does not end (it ends by
\* itself only after its while test has read is_running cleared),
\* is_running, the registry and the other tasks stay as they are; the task
\* leaves that wait only when the hour has passed, and then, if is_running
\* still holds, the daily join is invoked again (and returns, awaits the
\* broker or raises)
JoinErrorIsolated ==
    [][\A i \in TaskIds : tasks[i].name = "tournament" =>
          /\ (tasks'[i].pc = "return" /\ tasks[i].pc # "return") => ~is_running
          /\ (tasks'[i].pc = "done" /\ tasks[i].pc # "done") => tasks[i].pc = "return"
          /\ (/\ tasks'[i].pc = "sleep3600_err"
              /\ \/ tasks[i].pc # "sleep3600_err"
                 \/ tasks'[i].wake > tasks[i].wake) =>
                 /\ tasks'[i].wake = 1
                 /\ is_running' = is_running
                 /\ loops' = loops
                 /\ \A j \in Siblings(i) : tasks'[j] = tasks[j]
          /\ (/\ tasks[i].pc = "sleep3600_err"
              /\ tasks'[i].pc \notin {"cancelling", "cancelled"}
              /\ \/ tasks'[i].pc # "sleep3600_err"
                 \/ tasks'[i].wake > tasks[i].wake) =>
                 /\ tasks[i].wake = 0
                 /\ tasks'[i].pc = IF is_running THEN "join_call" ELSE "return"
          /\ (/\ tasks[i].pc = "join_call"
              /\ tasks'[i].pc \notin {"join_call", "cancelling", "cancelled"}) =>
                 \/ tasks'[i].pc = "sleep3600" /\ lastDaily'.at = now
                 \/ tasks'[i].pc = "joining"
                 \/ tasks'[i].pc = "sleep3600_err" /\ tasks'[i].wake = 1
      ]_vars

\* the join raised and was caught an hour ago: the tournament task stands
\* at the end of the wait of the handler, the supervisor is running and no
\* other loop has ended
WaitedAfterJoinError ==
    \E i \in TaskIds :
       /\ tasks[i].name = "tournament"
       /\ tasks[i].pc = "sleep3600_err"
       /\ tasks[i].wake = 0
       /\ now >= 1
       /\ is_running
       /\ \A j \in Siblings(i) : ~TaskDone(j) /\ ~CancelRequested(j)

\* task i is held in the registry
Registered(i) == \E n \in DOMAIN loops : loops[n] = i

\* C19: start() calls made by two request threads at a time on a stopped
\* supervisor create four tasks in all, and once the calls have returned each
\* is held in the registry (as long as no loop has ended or been cancelled,
\* so that no later start() was due)
StartIsAtomic ==
    (\A i \in TaskIds : ~TaskDone(i) /\ ~CancelRequested(i)) =>
       /\ Len(tasks) <= 4
       /\ (\A t \in Threads : rpc[t] = "idle") => \A i \in TaskIds : Registered(i)

\* C20: of every loop name at most one task is unfinished and not cancelled,
\* and every such task is held in the registry, so that stop() cancels it
\* (whenever no start() or stop() call is under way)
OneLiveTaskPerLoop ==
    LET Live(i) == ~TaskDone(i) /\ ~CancelRequested(i)
    IN  (\A t \in Threads : rpc[t] = "idle") =>
           /\ \A i, j \in TaskIds :
                 (Live(i) /\ Live(j) /\ tasks[i].name = tasks[j].name) => i = j
           /\ \A i \in TaskIds : Live(i) => Registered(i)

====
